---- MODULE Spec2Model ----
(***************************************************************************)
(* A model of main.py: the module-level startup (configuration, store      *)
(* client, embedding model) and the two endpoints, GET / and               *)
(* POST /add-text, served by concurrent worker threads.                    *)
(*                                                                         *)
(* Python values are modelled by what the code does with them: an          *)
(* environment variable is set or absent, a JSON field is missing or has a *)
(* type, a str is a TLA+ string, an ObjectId is a number whose str() is    *)
(* its 24-digit hexadecimal text, an embedding is a sequence of numbers    *)
(* carried in an ndarray or in a list.                                     *)
(***************************************************************************)
EXTENDS Naturals, Sequences, FiniteSets, TLC

(* ------------------------------ bounds --------------------------------- *)

\* Requests the server receives in one run. Each is handled by a worker
\* thread of its own, so up to MaxRequests calls of add_text run at once.
MaxRequests == 2

\* The calls, numbered in the order the requests arrive.
Calls == 1..MaxRequests

(* ------------------------- Python / JSON values ------------------------ *)

\* os.getenv's result: None when the variable is absent, else its text.
PyNone == [type |-> "NoneType", value |-> ""]

PyStr(s) == [type |-> "str", value |-> s]

\* Python truthiness of None and of a str: `not v` is true for None and "".
Truthy(v) == v.type = "str" /\ v.value # ""

\* A field of a JSON request body: missing, or a value of a JSON type,
\* carried as its literal text.
JsonMissing == [type |-> "missing", value |-> ""]

JsonStr(s) == [type |-> "str", value |-> s]

JsonInt(s) == [type |-> "int", value |-> s]

\* The request bodies the clients send to POST /add-text.
Bodies ==
    { [title |-> JsonStr("Hello"), content |-> JsonStr("World")],
      [title |-> JsonStr(""),      content |-> JsonStr("World")],
      [title |-> JsonStr("Hello"), content |-> JsonStr("")],
      [title |-> JsonMissing,      content |-> JsonStr("World")],
      [title |-> JsonStr("Hello"), content |-> JsonMissing],
      [title |-> JsonInt("7"),     content |-> JsonStr("World")],
      [title |-> JsonMissing,      content |-> JsonMissing] }

(* ------------------------- process environment ------------------------- *)

EnvAbsent == [isset |-> FALSE, value |-> ""]

EnvSet(s) == [isset |-> TRUE, value |-> s]

\* The environments the process may be started in (.env and os.environ).
Environments ==
    [ MONGODB_URI     : {EnvAbsent, EnvSet(""), EnvSet("mongodb://db:27017")},
      DB_NAME         : {EnvAbsent, EnvSet("prod_db")},
      TEXT_COLLECTION : {EnvAbsent, EnvSet("articles")} ]

\* os.getenv(name): None when absent.
getenv(env, name) ==
    IF env[name].isset THEN PyStr(env[name].value) ELSE PyNone

\* os.getenv(name, default): the default only when absent.
getenv_default(env, name, default) ==
    IF env[name].isset THEN env[name].value ELSE default

(* ----------------------------- constants ------------------------------- *)

MODEL_NAME == "all-MiniLM-L6-v2"

\* The sentence embedding dimension of MODEL_NAME.
EmbeddingDim == 384

NoHandle == [kind |-> "unset", a |-> "", b |-> ""]

(* ------------------------------- state --------------------------------- *)

VARIABLES
    environ,          \* the process environment after load_dotenv()
    phase,            \* position of the module's top-level code
    MONGODB_URI,      \* module global, line 12
    DB_NAME,          \* module global, line 13
    TEXT_COLLECTION,  \* module global, line 14
    client,           \* module global, line 22
    texts_coll,       \* module global, line 24 (handle: database, collection)
    model,            \* module global, line 29
    collection,       \* the documents stored in texts_coll, in insertion order
    oid_inc,          \* ObjectId's counter: ids generated so far
    request,          \* per call: the body of the request it answers
    pc,               \* per call: position in add_text
    payload,          \* per call: add_text's parameter
    embedding_list,   \* per call: add_text's local
    received,         \* requests received so far
    responses         \* the responses sent, in order, each with its request

vars == << environ, phase, MONGODB_URI, DB_NAME, TEXT_COLLECTION, client,
           texts_coll, model, collection, oid_inc, request, pc, payload,
           embedding_list, received, responses >>

globals == << MONGODB_URI, DB_NAME, TEXT_COLLECTION, client, texts_coll, model >>

locals == << request, pc, payload, embedding_list >>

store == << collection, oid_inc >>

NoPayload == [title |-> "", content |-> ""]

NoBody == [title |-> JsonMissing, content |-> JsonMissing]

Init ==
    /\ environ \in Environments
    /\ phase = "config"
    /\ MONGODB_URI = PyNone
    /\ DB_NAME = ""
    /\ TEXT_COLLECTION = ""
    /\ client = NoHandle
    /\ texts_coll = NoHandle
    /\ model = NoHandle
    /\ collection = << >>
    /\ oid_inc = 0
    /\ request = [c \in Calls |-> NoBody]
    /\ pc = [c \in Calls |-> "waiting"]
    /\ payload = [c \in Calls |-> NoPayload]
    /\ embedding_list = [c \in Calls |-> << >>]
    /\ received = 0
    /\ responses = << >>

(* ------------------------------ startup -------------------------------- *)

\* Lines 12-14: read the configuration.
LoadConfig ==
    /\ phase = "config"
    /\ MONGODB_URI' = getenv(environ, "MONGODB_URI")
    /\ DB_NAME' = getenv_default(environ, "DB_NAME", "vector_db")
    /\ TEXT_COLLECTION' = getenv_default(environ, "TEXT_COLLECTION", "texts")
    /\ phase' = "check"
    /\ UNCHANGED << environ, client, texts_coll, model, store, locals,
                    received, responses >>

\* Fault variant of UriMissing: the configuration is never found missing.
UriNeverMissing(uri) == FALSE

\* Line 16: `not MONGODB_URI`.
UriMissing(uri) == ~Truthy(uri)

\* Lines 16-17: without a connection string the import raises RuntimeError.
CheckConfig ==
    /\ phase = "check"
    /\ phase' = IF UriMissing(MONGODB_URI) THEN "failed" ELSE "connect"
    /\ UNCHANGED << environ, globals, store, locals, received, responses >>

\* Lines 20-24: the app, the store client and the collection handle.
CreateClient ==
    /\ phase = "connect"
    /\ client' = [kind |-> "MongoClient", a |-> MONGODB_URI.value, b |-> ""]
    /\ texts_coll' = [kind |-> "Collection", a |-> DB_NAME, b |-> TEXT_COLLECTION]
    /\ phase' = "load_model"
    /\ UNCHANGED << environ, MONGODB_URI, DB_NAME, TEXT_COLLECTION, model,
                    store, locals, received, responses >>

\* Lines 28-29: the embedding model, loaded before the app serves.
LoadModel ==
    /\ phase = "load_model"
    /\ model' = [kind |-> "SentenceTransformer", a |-> MODEL_NAME, b |-> ""]
    /\ phase' = "serving"
    /\ UNCHANGED << environ, MONGODB_URI, DB_NAME, TEXT_COLLECTION, client,
                    texts_coll, store, locals, received, responses >>

(* --------------------------- request schema ---------------------------- *)

\* Pydantic's errors for one `str` field: a missing field, a non-str value.
FieldErrors(body, f) ==
    IF body[f].type = "missing" THEN {[loc |-> f, type |-> "missing"]}
    ELSE IF body[f].type # "str" THEN {[loc |-> f, type |-> "string_type"]}
    ELSE {}

\* Fault variant of AddTextRequest: optional fields of any type, no errors.
AddTextRequestDefaults(body) ==
    [errors  |-> {},
     title   |-> body.title.value,
     content |-> body.content.value]

\* Lines 32-34: AddTextRequest built from the request body; title and content
\* are required fields of type str, with no other constraint.
AddTextRequest(body) ==
    [errors  |-> FieldErrors(body, "title") \cup FieldErrors(body, "content"),
     title   |-> body.title.value,
     content |-> body.content.value]

(* ------------------------- embedding collaborator ---------------------- *)

\* The i-th component of the model's vector for a text: a fixed function of
\* the text, here of its length, scaled to an integer.
Component(text, i) == (31 * Len(text) + 7 * i) % 101

\* The vector MODEL_NAME computes for a text: EmbeddingDim numbers.
Embedding(text) == [i \in 1..EmbeddingDim |-> Component(text, i)]

\* model.encode returns a numpy array of float32 or a list of floats.
EncodeResults(text) ==
    { [type |-> "ndarray", data |-> [i \in 1..EmbeddingDim |-> << "float32", Component(text, i) >>]],
      [type |-> "list",    data |-> Embedding(text)] }

\* What model.encode may raise.
EncodeErrors == { [type |-> "RuntimeError", message |-> "out of memory"] }

\* ndarray.tolist(): every float32 element widened to a Python float.
tolist(vector) == [i \in 1..Len(vector.data) |-> vector.data[i][2]]

\* list(vector): a new list of the same elements.
list(vector) == [i \in 1..Len(vector.data) |-> vector.data[i]]

hasattr_tolist(vector) == vector.type = "ndarray"

\* Fault variant of _to_list: the last element of an ndarray is dropped.
_to_list_truncated(vector) ==
    IF hasattr_tolist(vector) THEN SubSeq(tolist(vector), 1, Len(vector.data) - 1)
    ELSE list(vector)

\* Lines 41-43: _to_list.
_to_list(vector) ==
    IF hasattr_tolist(vector) THEN tolist(vector) ELSE list(vector)

(* --------------------------- store collaborator ------------------------ *)

NoException == [type |-> "", message |-> ""]

\* What insert_one may raise.
InsertErrors ==
    { [type |-> "ServerSelectionTimeoutError", message |-> "connection refused"],
      [type |-> "InvalidDocument", message |-> "cannot encode object"] }

\* ObjectId(): the next identifier of the process's counter.
ObjectId(inc) == inc + 1

HexDigits == << "0", "1", "2", "3", "4", "5", "6", "7",
                "8", "9", "a", "b", "c", "d", "e", "f" >>

RECURSIVE Hex(_, _)
Hex(n, width) ==
    IF width = 0 THEN ""
    ELSE Hex(n \div 16, width - 1) \o HexDigits[(n % 16) + 1]

\* str(ObjectId): the 12 bytes of the identifier as 24 hexadecimal digits.
ObjectIdStr(oid) == Hex(oid, 24)

WithId(doc, oid) == [_id |-> oid] @@ doc

\* Fault variants of insert_one: an upsert keyed on title and content, a
\* write that is applied although the call raises, a write that replaces
\* the collection's documents.
SameText(d, doc) == d.title = doc.title /\ d.content = doc.content

insert_one_upsert(coll, doc, oid, err) ==
    IF err # NoException
    THEN [collection |-> coll, inserted_id |-> 0, raised |-> err]
    ELSE IF \E i \in 1..Len(coll) : SameText(coll[i], doc)
    THEN [collection |-> coll,
          inserted_id |-> coll[CHOOSE i \in 1..Len(coll) : SameText(coll[i], doc)]._id,
          raised |-> NoException]
    ELSE [collection |-> Append(coll, WithId(doc, oid)),
          inserted_id |-> oid, raised |-> NoException]

insert_one_write_then_raise(coll, doc, oid, err) ==
    [collection |-> Append(coll, WithId(doc, oid)),
     inserted_id |-> IF err = NoException THEN oid ELSE 0,
     raised |-> err]

insert_one_replace(coll, doc, oid, err) ==
    IF err # NoException
    THEN [collection |-> coll, inserted_id |-> 0, raised |-> err]
    ELSE [collection |-> << WithId(doc, oid) >>,
          inserted_id |-> oid, raised |-> NoException]

\* Line 69: texts_coll.insert_one(doc). The driver gives the document the _id
\* `oid`; the store either appends the whole document and acknowledges it, or
\* the call raises `err` and nothing is stored.
insert_one(coll, doc, oid, err) ==
    IF err # NoException
    THEN [collection |-> coll, inserted_id |-> 0, raised |-> err]
    ELSE [collection |-> Append(coll, WithId(doc, oid)),
          inserted_id |-> oid, raised |-> NoException]

(* ------------------------------ add_text ------------------------------- *)

\* Fault variant of payload_of: the payload kept in one variable shared by
\* all calls, holding the latest running call's.
Running(c) == pc[c] \in {"encode", "insert"}

Latest == CHOOSE u \in Calls : Running(u) /\ \A v \in Calls : Running(v) => v <= u

payload_shared(c) == payload[Latest]

\* Line 52: `payload`, the parameter of call c.
payload_of(c) == payload[c]

\* Line 57: f"{payload.title}\n\n{payload.content}".
Text(title, content) == title \o "\n\n" \o content

\* Fault variant of Document: title and content exchanged.
DocumentSwapped(p, embedding) ==
    [title |-> p.content, content |-> p.title,
     embedding |-> embedding, model |-> MODEL_NAME]

\* Lines 63-68: the document to insert.
Document(p, embedding) ==
    [title |-> p.title, content |-> p.content,
     embedding |-> embedding, model |-> MODEL_NAME]

\* str(e)
str(e) == e.message

\* Fault variant of HTTPException: store unavailability answered 503.
HTTPExceptionByKind(e) ==
    [status |-> IF e.type = "ServerSelectionTimeoutError" THEN 503 ELSE 500,
     body |-> [detail |-> str(e)]]

\* Lines 72-73: HTTPException(status_code=500, detail=str(e)).
HTTPException(e) == [status |-> 500, body |-> [detail |-> str(e)]]

\* One sent response, with the request it answers and what the call did.
Sent(n, route, req, r, raised, stage, oid) ==
    [rid |-> n, route |-> route, request |-> req, status |-> r.status,
     body |-> r.body, raised |-> raised, stage |-> stage, oid |-> oid]

\* The call returns: its parameter and locals are gone.
Return(c) ==
    /\ pc' = [pc EXCEPT ![c] = "done"]
    /\ UNCHANGED request
    /\ payload' = [payload EXCEPT ![c] = NoPayload]
    /\ embedding_list' = [embedding_list EXCEPT ![c] = << >>]

\* Lines 46-48: GET /.
Root(c) ==
    /\ phase = "serving"
    /\ pc[c] = "waiting"
    /\ c = received + 1
    /\ received' = c
    /\ pc' = [pc EXCEPT ![c] = "done"]
    /\ responses' = Append(responses,
           Sent(c, "GET /", NoBody,
                [status |-> 200, body |-> [message |-> "MongoDB Vector Search API is running!"]],
                NoException, "root", 0))
    /\ UNCHANGED << environ, phase, globals, store, request, payload, embedding_list >>

\* Lines 51-52: POST /add-text arrives; the framework builds AddTextRequest
\* from the body and answers 422 itself when that fails, else calls add_text.
AddTextReceive(c, body) ==
    /\ phase = "serving"
    /\ pc[c] = "waiting"
    /\ c = received + 1
    /\ received' = c
    /\ request' = [request EXCEPT ![c] = body]
    /\ LET req == AddTextRequest(body) IN
       \/ /\ req.errors # {}
          /\ responses' = Append(responses,
                 Sent(c, "POST /add-text", body,
                      [status |-> 422, body |-> [detail |-> req.errors]],
                      NoException, "validation", 0))
          /\ pc' = [pc EXCEPT ![c] = "done"]
          /\ UNCHANGED << payload, embedding_list >>
       \/ /\ req.errors = {}
          /\ pc' = [pc EXCEPT ![c] = "encode"]
          /\ payload' = [payload EXCEPT ![c] = [title |-> req.title, content |-> req.content]]
          /\ UNCHANGED << embedding_list, responses >>
    /\ UNCHANGED << environ, phase, globals, store >>

\* Lines 57-60: build the text, encode it, convert the vector.
AddTextEncode(c) ==
    /\ pc[c] = "encode"
    /\ LET text == Text(payload_of(c).title, payload_of(c).content) IN
       \/ \E vector \in EncodeResults(text) :
             /\ embedding_list' = [embedding_list EXCEPT ![c] = _to_list(vector)]
             /\ pc' = [pc EXCEPT ![c] = "insert"]
             /\ UNCHANGED << request, payload, responses >>
       \/ \E e \in EncodeErrors :
             /\ responses' = Append(responses,
                    Sent(c, "POST /add-text", request[c],
                         HTTPException(e), e, "encode", 0))
             /\ Return(c)
    /\ UNCHANGED << environ, phase, globals, store, received >>

\* Lines 63-73: build the document, insert it, answer.
AddTextInsert(c) ==
    /\ pc[c] = "insert"
    /\ LET doc == Document(payload_of(c), embedding_list[c])
           oid == ObjectId(oid_inc)
       IN  \E err \in InsertErrors \cup {NoException} :
              LET res == insert_one(collection, doc, oid, err) IN
              /\ collection' = res.collection
              /\ oid_inc' = oid
              /\ \/ /\ res.raised = NoException
                    /\ responses' = Append(responses,
                           Sent(c, "POST /add-text", request[c],
                                [status |-> 200,
                                 body |-> [inserted_id |-> ObjectIdStr(res.inserted_id),
                                           title |-> payload_of(c).title]],
                                NoException, "done", oid))
                 \/ /\ res.raised # NoException
                    /\ responses' = Append(responses,
                           Sent(c, "POST /add-text", request[c],
                                HTTPException(res.raised), res.raised, "insert", oid))
    /\ Return(c)
    /\ UNCHANGED << environ, phase, globals, received >>

Next ==
    \/ LoadConfig
    \/ CheckConfig
    \/ CreateClient
    \/ LoadModel
    \/ \E c \in Calls : Root(c)
    \/ \E c \in Calls, body \in Bodies : AddTextReceive(c, body)
    \/ \E c \in Calls : AddTextEncode(c)
    \/ \E c \in Calls : AddTextInsert(c)

Spec == Init /\ [][Next]_vars

(* ------------------------------ properties ----------------------------- *)

\* A request body with both fields present and of type text.
ValidBody(b) == b.title.type = "str" /\ b.content.type = "str"

AddTextResponses == { i \in DOMAIN responses : responses[i].route = "POST /add-text" }

Succeeded == { i \in AddTextResponses : responses[i].status = 200 }

\* The stored documents a 200 response's inserted_id identifies.
DocsOf(i) ==
    { k \in DOMAIN collection :
        ObjectIdStr(collection[k]._id) = responses[i].body.inserted_id }

\* The step sends a response (the last of responses').
Sends == Len(responses') = Len(responses) + 1

LastSent == responses'[Len(responses')]

\* C1: a valid add-text request whose encode and insert both succeed is
\* answered 200 with a non-empty inserted_id and the request's title, and the
\* collection then holds a document with that identifier and exactly the
\* request's title and content.
C1_AddTextStoresRequest ==
    \A i \in AddTextResponses :
        LET r == responses[i] IN
        (ValidBody(r.request) /\ r.raised = NoException) =>
            /\ r.status = 200
            /\ r.body.inserted_id # ""
            /\ Len(r.body.inserted_id) = 24
            /\ r.body.title = r.request.title.value
            /\ \E k \in DocsOf(i) :
                  /\ collection[k].title = r.request.title.value
                  /\ collection[k].content = r.request.content.value

C1_Witness ==
    \E i \in Succeeded :
        /\ responses[i].request.title.value = "Hello"
        /\ responses[i].request.content.value = "World"
        /\ DocsOf(i) # {}

\* C2: no two stored documents share an identifier, no two successful
\* responses carry the same inserted_id, and two successful calls (with
\* identical input or not) leave two separate documents.
C2_DistinctIdentifiers ==
    /\ \A k, l \in DOMAIN collection :
          k # l => collection[k]._id # collection[l]._id
    /\ \A i, j \in Succeeded :
          i # j =>
            /\ responses[i].body.inserted_id # responses[j].body.inserted_id
            /\ \E k \in DocsOf(i), l \in DocsOf(j) : k # l

C2_Witness ==
    /\ Len(collection) = 2
    /\ \E i, j \in Succeeded :
          /\ i # j
          /\ responses[i].request = responses[j].request
    /\ collection[1].title = collection[2].title
    /\ collection[1].content = collection[2].content

\* C3: an add-text request that omits title or content, or gives one a
\* non-text type, is answered 422; its call never reaches the encode or the
\* insert step, and its handling leaves the collection unchanged.
C3_InvalidRejected ==
    /\ [](\A c \in Calls : pc[c] \in {"encode", "insert"} => ValidBody(request[c]))
    /\ [](\A i \in AddTextResponses :
             ~ValidBody(responses[i].request) =>
                 /\ responses[i].status = 422
                 /\ responses[i].stage = "validation")
    /\ [][ (Sends /\ LastSent.route = "POST /add-text" /\ ~ValidBody(LastSent.request)) =>
               /\ collection' = collection
               /\ oid_inc' = oid_inc
               /\ embedding_list' = embedding_list ]_vars

C3_Witness ==
    /\ Len(collection) = 1
    /\ Len(responses) = 2
    /\ responses[2].status = 422
    /\ responses[2].request.title.type = "int"

\* C4: when insert raises, the call is answered 500 and the collection holds
\* no document of that call: the failing step leaves the stored documents as
\* they were.
C4_InsertFailureStoresNothing ==
    /\ [](\A i \in AddTextResponses :
             responses[i].stage = "insert" =>
                 /\ responses[i].status = 500
                 /\ \A k \in DOMAIN collection : collection[k]._id # responses[i].oid)
    /\ [][ (Sends /\ LastSent.stage = "insert") => collection' = collection ]_vars

C4_Witness ==
    /\ Len(collection) = 1
    /\ \E i \in AddTextResponses :
          /\ responses[i].stage = "insert"
          /\ responses[i].raised.type = "ServerSelectionTimeoutError"

\* C5: for a validated request every failure, whatever its kind, is answered
\* with status 500 and the error's text as detail, and no other status than
\* 200 or 500 occurs; a failure at the encode step never calls insert and
\* leaves the collection unchanged.
C5_FailuresAre500 ==
    /\ [](\A i \in AddTextResponses :
             LET r == responses[i] IN
             ValidBody(r.request) =>
                 /\ r.status \in {200, 500}
                 /\ (r.status = 500) = (r.raised # NoException)
                 /\ r.raised # NoException => r.body = [detail |-> r.raised.message]
                 /\ r.stage = "encode" => r.oid = 0)
    /\ [][ (Sends /\ LastSent.stage = "encode") =>
               /\ collection' = collection
               /\ oid_inc' = oid_inc ]_vars

C5_Witness ==
    \E i, j \in AddTextResponses :
        /\ responses[i].stage = "encode"
        /\ responses[j].stage = "insert"
        /\ responses[i].status = 500
        /\ responses[j].status = 500

\* C6: every stored document has a non-empty title and a
\* non-empty content.
C6_NonEmptyTitleAndContent ==
    \A k \in DOMAIN collection :
        collection[k].title # "" /\ collection[k].content # ""

\* C7: every step leaves the stored documents as they are or appends exactly
\* one document together with a 200 response of add-text, so the number of
\* stored documents equals the number of 200 responses of add-text.
C7_OnlyAppends ==
    /\ [](Len(collection) = Cardinality(Succeeded))
    /\ [][ \/ collection' = collection
           \/ /\ Len(collection') = Len(collection) + 1
              /\ SubSeq(collection', 1, Len(collection)) = collection
              /\ Sends
              /\ LastSent.route = "POST /add-text"
              /\ LastSent.status = 200 ]_vars

C7_Witness ==
    /\ Len(collection) = 1
    /\ Len(responses) = 2
    /\ responses[1].status = 200
    /\ responses[1].route = "POST /add-text"
    /\ responses[2].route = "GET /"

\* C8: every stored document names the configured model and its embedding is
\* the model's vector for the framed text, element for element: EmbeddingDim
\* numbers in the encoder's order.
C8_EmbeddingShape ==
    \A k \in DOMAIN collection :
        LET d == collection[k] IN
        /\ d.model = MODEL_NAME
        /\ d.model = model.a
        /\ Len(d.embedding) = EmbeddingDim
        /\ d.embedding = Embedding(Text(d.title, d.content))

C8_Witness ==
    /\ Len(collection) = 2
    /\ collection[1].title # collection[2].title
    /\ Len(collection[1].embedding) = 384
    /\ collection[1].embedding # collection[2].embedding

\* C9: without a connection string in the environment the process never gets
\* past the configuration check: no client, no model, no request handled; a
\* failed start is always due to the connection string; and a serving process
\* uses the given database and collection names or their defaults.
C9_StartupRequiresUri ==
    /\ ~environ.MONGODB_URI.isset =>
          /\ phase \in {"config", "check", "failed"}
          /\ client = NoHandle
          /\ texts_coll = NoHandle
          /\ model = NoHandle
          /\ received = 0
          /\ responses = << >>
    /\ phase = "failed" =>
          (~environ.MONGODB_URI.isset \/ environ.MONGODB_URI.value = "")
    /\ phase = "serving" =>
          /\ texts_coll.a = (IF environ.DB_NAME.isset
                             THEN environ.DB_NAME.value ELSE "vector_db")
          /\ texts_coll.b = (IF environ.TEXT_COLLECTION.isset
                             THEN environ.TEXT_COLLECTION.value ELSE "texts")

C9_Witness ==
    /\ phase = "failed"
    /\ ~environ.MONGODB_URI.isset
    /\ ~environ.DB_NAME.isset

\* C10: under every interleaving each successful response identifies exactly
\* one stored document, which carries that request's title and content; every
\* stored document belongs to a successful response; a running call's
\* parameter and locals are those of its own request and no other call's step
\* changes them; the shared handles are never reassigned once serving.
C10_CallsIndependent ==
    /\ [](\A i \in Succeeded :
             /\ Cardinality(DocsOf(i)) = 1
             /\ \A k \in DocsOf(i) :
                   /\ collection[k].title = responses[i].request.title.value
                   /\ collection[k].content = responses[i].request.content.value)
    /\ [](\A k \in DOMAIN collection : \E i \in Succeeded : k \in DocsOf(i))
    /\ [](\A c \in Calls :
             pc[c] \in {"encode", "insert"} =>
                 /\ payload[c].title = request[c].title.value
                 /\ payload[c].content = request[c].content.value)
    /\ [][ \A c \in Calls :
              (pc[c] \in {"encode", "insert"} /\ pc'[c] = pc[c]) =>
                  /\ payload'[c] = payload[c]
                  /\ embedding_list'[c] = embedding_list[c] ]_vars
    /\ [][ phase = "serving" =>
              /\ client' = client
              /\ model' = model
              /\ texts_coll' = texts_coll ]_vars

C10_Witness ==
    /\ Len(responses) = 2
    /\ responses[1].rid = 2
    /\ responses[2].rid = 1
    /\ responses[1].status = 200
    /\ responses[2].status = 200
    /\ responses[1].request # responses[2].request

====
